---- MODULE Spec2Model ----
(***************************************************************************)
(* SynapseChess session controller (src/gui.py): board ownership, the five *)
(* play modes, the background engine worker and its pending-result slot,   *)
(* the per-side clock and the move log.                                    *)
(*                                                                         *)
(* The rules library (python-chess) is an external collaborator.  It is    *)
(* modelled by a small chess on NFiles x NRanks squares with kings, pawns, *)
(* rooks and queens; the calls the controller makes on it (legal_moves,    *)
(* piece_at, san, push, reset, is_check, is_game_over, ...) keep the       *)
(* library's meaning.  Wall-clock time is counted in whole seconds.        *)
(***************************************************************************)
EXTENDS Integers, Sequences, FiniteSets

\* ------------------------------------------------------------------------
\* Bounds of the model
\* ------------------------------------------------------------------------

\* half-moves pushed onto the board between two resets
MaxPly == 2
\* seconds the wall clock advances in one step, and the number of such steps
Step == 301
MaxSteps == 2
\* entries a ledger taken by itself grows by
MaxAppend == 3

\* ------------------------------------------------------------------------
\* Program constants
\* ------------------------------------------------------------------------

START_TIME == 300
line_height == 18
\* ScrollableMoveLog(BOARD_SIZE+20, 180, 180, 280): (height - 60)//line_height
visible_lines == (280 - 60) \div line_height

WHITE == "white"
BLACK == "black"
Colors == {WHITE, BLACK}
Other(c) == IF c = WHITE THEN BLACK ELSE WHITE

HUMAN_VS_HUMAN == 0
HUMAN_VS_ENGINE == 1
ENGINE_VS_HUMAN == 2
ENGINE_VS_ENGINE == 3
ANALYSIS == 4
Mode == {HUMAN_VS_HUMAN, HUMAN_VS_ENGINE, ENGINE_VS_HUMAN, ENGINE_VS_ENGINE, ANALYSIS}

\* ------------------------------------------------------------------------
\* Rules library: squares, pieces, moves
\* ------------------------------------------------------------------------

\* the reduced board: three files of four ranks (eight of eight in the library)
Files == 0 .. 2
Ranks == 0 .. 3
NFiles == Cardinality(Files)
NRanks == Cardinality(Ranks)
Squares == 0 .. (NFiles * NRanks - 1)
NoSquare == -1
\* a click at x >= BOARD_SIZE or y >= BOARD_SIZE
OffBoard == -2
square(f, r) == r * NFiles + f
square_file(sq) == sq % NFiles
square_rank(sq) == sq \div NFiles
\* chess.square_rank(to) in (0, 7): the first and the last rank
LastRanks == {0, NRanks - 1}

KING == "K"
QUEEN == "Q"
ROOK == "R"
PAWN == "P"
NoPromotion == "-"
\* kinds a pawn may promote to (the library also offers bishop and knight)
PromotionKinds == {QUEEN, ROOK}

NoPiece == [color |-> "-", kind |-> "-"]
Piece(c, k) == [color |-> c, kind |-> k]

Move(from, to) == [from_square |-> from, to_square |-> to, promotion |-> NoPromotion]
NoMove == [from_square |-> NoSquare, to_square |-> NoSquare, promotion |-> NoPromotion]

Abs(x) == IF x < 0 THEN -x ELSE x
Sgn(x) == IF x < 0 THEN -1 ELSE IF x > 0 THEN 1 ELSE 0
Max(a, b) == IF a > b THEN a ELSE b
Min(a, b) == IF a < b THEN a ELSE b

FileDiff(a, b) == square_file(b) - square_file(a)
RankDiff(a, b) == square_rank(b) - square_rank(a)
Distance(a, b) == Max(Abs(FileDiff(a, b)), Abs(RankDiff(a, b)))

\* squares strictly between two squares of one line
Between(a, b) ==
    { s \in Squares : \E k \in 1 .. (Distance(a, b) - 1) :
        /\ square_file(s) = square_file(a) + k * Sgn(FileDiff(a, b))
        /\ square_rank(s) = square_rank(a) + k * Sgn(RankDiff(a, b)) }

Forward(c) == IF c = WHITE THEN 1 ELSE -1

\* the piece on `from` attacks square `to`
Attacks(pieces, from, to) ==
    LET p == pieces[from]
        df == FileDiff(from, to)
        dr == RankDiff(from, to)
        clear == \A s \in Between(from, to) : pieces[s] = NoPiece
    IN  /\ from # to
        /\ CASE p.kind = KING -> Distance(from, to) = 1
             [] p.kind = PAWN -> Abs(df) = 1 /\ dr = Forward(p.color)
             [] p.kind = ROOK -> (df = 0 \/ dr = 0) /\ clear
             [] p.kind = QUEEN -> (df = 0 \/ dr = 0 \/ Abs(df) = Abs(dr)) /\ clear
             [] OTHER -> FALSE

is_attacked_by(pieces, c, sq) ==
    \E s \in Squares : pieces[s].color = c /\ Attacks(pieces, s, sq)

\* squares of the kings of a colour (none once a king has been taken)
king(pieces, c) == { s \in Squares : pieces[s] = Piece(c, KING) }

\* the piece placement after a move, as Board.push makes it: the moving piece
\* leaves its square and lands, with the colour of the side to move, on the
\* target
MovePieces(pieces, move, turn) ==
    LET p == pieces[move.from_square]
        k == IF move.promotion # NoPromotion THEN move.promotion ELSE p.kind
    IN  [pieces EXCEPT ![move.from_square] = NoPiece,
                       ![move.to_square] = Piece(turn, k)]

Targets(pieces, from) ==
    LET p == pieces[from]
    IN  IF p.kind = PAWN
        THEN { t \in Squares :
                 \/ /\ FileDiff(from, t) = 0
                    /\ RankDiff(from, t) = Forward(p.color)
                    /\ pieces[t] = NoPiece
                 \/ /\ Attacks(pieces, from, t)
                    /\ pieces[t].color = Other(p.color) }
        ELSE { t \in Squares : Attacks(pieces, from, t) /\ pieces[t].color # p.color }

MovesFrom(pieces, from) ==
    UNION { IF pieces[from].kind = PAWN /\ square_rank(t) \in LastRanks
            THEN { [from_square |-> from, to_square |-> t, promotion |-> k] :
                     k \in PromotionKinds }
            ELSE { Move(from, t) } : t \in Targets(pieces, from) }

pseudo_legal_moves(b) ==
    UNION { MovesFrom(b.pieces, s) : s \in { q \in Squares : b.pieces[q].color = b.turn } }

\* board.legal_moves
legal_moves(b) ==
    { m \in pseudo_legal_moves(b) :
        LET after == MovePieces(b.pieces, m, b.turn)
        IN  \A k \in king(after, b.turn) : ~is_attacked_by(after, Other(b.turn), k) }

is_check(b) == \E k \in king(b.pieces, b.turn) : is_attacked_by(b.pieces, Other(b.turn), k)
is_checkmate(b) == is_check(b) /\ legal_moves(b) = {}
is_stalemate(b) == ~is_check(b) /\ legal_moves(b) = {}
is_insufficient_material(b) ==
    \A s \in Squares : b.pieces[s].kind \notin {PAWN, ROOK, QUEEN}

\* how often the current position has occurred, itself included
Occurrences(b) ==
    1 + Cardinality({ i \in 1 .. Len(b.stack) :
                        b.stack[i] = [pieces |-> b.pieces, turn |-> b.turn] })
is_repetition(b, count) == Occurrences(b) >= count
is_fivefold_repetition(b) == is_repetition(b, 5)
is_fifty_moves(b) == b.halfmove_clock >= 100 /\ legal_moves(b) # {}
is_seventyfive_moves(b) == b.halfmove_clock >= 150 /\ legal_moves(b) # {}

\* board.is_game_over() with claim_draw left False: draws that have to be
\* claimed (three-fold repetition, fifty moves) do not end the game
is_game_over(b) ==
    \/ is_checkmate(b)
    \/ is_stalemate(b)
    \/ is_insufficient_material(b)
    \/ is_seventyfive_moves(b)
    \/ is_fivefold_repetition(b)

\* chess.Board(): white king and pawn against black king and pawn, White to
\* move; the white pawn stands one step from promotion
StartPieces ==
    [ s \in Squares |->
        CASE s = square(0, 0) -> Piece(WHITE, KING)
          [] s = square(0, NRanks - 2) -> Piece(WHITE, PAWN)
          [] s = square(NFiles - 1, NRanks - 1) -> Piece(BLACK, KING)
          [] s = square(NFiles - 1, NRanks - 2) -> Piece(BLACK, PAWN)
          [] OTHER -> NoPiece ]

Board ==
    [ pieces |-> StartPieces, turn |-> WHITE, fullmove_number |-> 1,
      halfmove_clock |-> 0, move_stack |-> << >>, stack |-> << >> ]

\* board.push(move): no legality check; the caller answers for it
push(b, move) ==
    LET zeroing == \/ b.pieces[move.from_square].kind = PAWN
                   \/ b.pieces[move.to_square] # NoPiece
    IN  [ pieces |-> MovePieces(b.pieces, move, b.turn),
          turn |-> Other(b.turn),
          fullmove_number |-> IF b.turn = BLACK THEN b.fullmove_number + 1
                              ELSE b.fullmove_number,
          halfmove_clock |-> IF zeroing THEN 0 ELSE b.halfmove_clock + 1,
          move_stack |-> Append(b.move_stack, move),
          stack |-> Append(b.stack, [pieces |-> b.pieces, turn |-> b.turn]) ]

\* board.san(move): piece letter, capture mark, target, promotion, check mark
NoSan == [piece |-> "", capture |-> FALSE, to |-> NoSquare, promotion |-> NoPromotion,
          suffix |-> ""]
san(b, move) ==
    LET after == push(b, move)
    IN  [ piece |-> b.pieces[move.from_square].kind,
          capture |-> b.pieces[move.to_square] # NoPiece,
          to |-> move.to_square,
          promotion |-> move.promotion,
          suffix |-> IF is_checkmate(after) THEN "#"
                     ELSE IF is_check(after) THEN "+" ELSE "" ]

\* ------------------------------------------------------------------------
\* Clock
\* ------------------------------------------------------------------------

\* Clock(): both sides at the full start time, last_tick at the time of the call
Clock(t) == [ remaining |-> [c \in Colors |-> START_TIME], last_tick |-> t ]
start_turn(c, t) == [c EXCEPT !.last_tick = t]
\* variant of stop_turn: the time is taken from the side that is not to move
stop_turn_other(c, side_to_move, t) ==
    [c EXCEPT !.remaining[Other(side_to_move)] = @ - (t - c.last_tick)]
stop_turn(c, side_to_move, t) ==
    [c EXCEPT !.remaining[side_to_move] = @ - (t - c.last_tick)]
flag(c) == \E side \in Colors : c.remaining[side] <= 0

\* ------------------------------------------------------------------------
\* ScrollableMoveLog
\* ------------------------------------------------------------------------

Entry(n, ws, bs) == [num |-> n, white |-> ws, black |-> bs]

ScrollableMoveLog ==
    [ moves |-> << >>, current_move_number |-> 1, waiting_for_black |-> FALSE,
      scroll_y |-> 0, max_scroll |-> 0 ]

update_scroll_limits(l) ==
    LET total == Len(l.moves)
        ms == IF total > visible_lines THEN (total - visible_lines) * line_height ELSE 0
    IN  [l EXCEPT !.max_scroll = ms, !.scroll_y = Max(0, Min(l.scroll_y, ms))]

\* variant of auto_scroll_to_bottom: the offset is left where it is
auto_scroll_keep(l) == l

auto_scroll_to_bottom(l) == [l EXCEPT !.scroll_y = l.max_scroll]

\* variant of add_move: a black half-move fills the last entry whether or
\* not a white half is awaited
add_move_fill_unasked(l, s, is_white) ==
    LET appended ==
          IF is_white
          THEN [l EXCEPT !.moves = Append(@, Entry(l.current_move_number, s, NoSan)),
                         !.waiting_for_black = TRUE]
          ELSE IF l.moves # << >>
               THEN [l EXCEPT !.moves[Len(l.moves)].black = s,
                              !.current_move_number = @ + 1,
                              !.waiting_for_black = FALSE]
               ELSE [l EXCEPT !.moves = Append(@, Entry(l.current_move_number, NoSan, s)),
                              !.current_move_number = @ + 1]
    IN  auto_scroll_to_bottom(update_scroll_limits(appended))

\* variant of add_move: a black half-move that opens an entry of its own
\* leaves the counter as it is
add_move_keeps_count(l, s, is_white) ==
    LET appended ==
          IF is_white
          THEN [l EXCEPT !.moves = Append(@, Entry(l.current_move_number, s, NoSan)),
                         !.waiting_for_black = TRUE]
          ELSE IF l.waiting_for_black /\ l.moves # << >>
               THEN [l EXCEPT !.moves[Len(l.moves)].black = s,
                              !.current_move_number = @ + 1,
                              !.waiting_for_black = FALSE]
               ELSE [l EXCEPT !.moves = Append(@, Entry(l.current_move_number, NoSan, s))]
    IN  auto_scroll_to_bottom(update_scroll_limits(appended))

\* variant of add_move: a black half-move always opens an entry of its own
add_move_always_new(l, s, is_white) ==
    LET appended ==
          IF is_white
          THEN [l EXCEPT !.moves = Append(@, Entry(l.current_move_number, s, NoSan)),
                         !.waiting_for_black = TRUE]
          ELSE [l EXCEPT !.moves = Append(@, Entry(l.current_move_number, NoSan, s)),
                         !.current_move_number = @ + 1]
    IN  auto_scroll_to_bottom(update_scroll_limits(appended))

add_move(l, s, is_white) ==
    LET appended ==
          IF is_white
          THEN [l EXCEPT !.moves = Append(@, Entry(l.current_move_number, s, NoSan)),
                         !.waiting_for_black = TRUE]
          ELSE IF l.waiting_for_black /\ l.moves # << >>
               THEN [l EXCEPT !.moves[Len(l.moves)].black = s,
                              !.current_move_number = @ + 1,
                              !.waiting_for_black = FALSE]
               ELSE [l EXCEPT !.moves = Append(@, Entry(l.current_move_number, NoSan, s)),
                              !.current_move_number = @ + 1]
    IN  auto_scroll_to_bottom(update_scroll_limits(appended))

\* handle_mouse_wheel(e) with e.y = y; inside: the pointer is over the log
handle_mouse_wheel(l, y, inside) ==
    IF inside
    THEN [l EXCEPT !.scroll_y = Max(0, Min(l.scroll_y - y * line_height * 3, l.max_scroll))]
    ELSE l

\* variant of clear: waiting_for_black is left as it is
clear_keeps_waiting(l) ==
    [l EXCEPT !.moves = << >>, !.current_move_number = 1, !.scroll_y = 0, !.max_scroll = 0]

clear(l) ==
    [l EXCEPT !.moves = << >>, !.current_move_number = 1, !.waiting_for_black = FALSE,
              !.scroll_y = 0, !.max_scroll = 0]

\* ------------------------------------------------------------------------
\* State of the session
\* ------------------------------------------------------------------------

VARIABLES
    gui,      \* the ChessGUI object: its fields, the engine threads alive
    main_pc,  \* where the main loop of launch() stands
    now       \* time.time(), whole seconds since construction

vars == << gui, main_pc, now >>

\* ------------------------------------------------------------------------
\* Mode policy
\* ------------------------------------------------------------------------

\* variant of next_mode: the modulus is one too small, so the last mode is
\* never entered
next_mode_short(m) == (m + 1) % (Cardinality(Mode) - 1)

\* change_mode: modes = list(Mode); idx = (modes.index(self.mode) + 1) % len(modes)
next_mode(m) == (m + 1) % Cardinality(Mode)

\* variant of engine_turn: the two colours are swapped
engine_turn_swapped(m, side) ==
    \/ side = BLACK /\ m \in {ENGINE_VS_HUMAN, ENGINE_VS_ENGINE}
    \/ side = WHITE /\ m \in {HUMAN_VS_ENGINE, ENGINE_VS_ENGINE}

\* the condition of maybe_start_engine_think: the side to move is the engine's
engine_turn(m, side) ==
    \/ side = WHITE /\ m \in {ENGINE_VS_HUMAN, ENGINE_VS_ENGINE}
    \/ side = BLACK /\ m \in {HUMAN_VS_ENGINE, ENGINE_VS_ENGINE}

\* variant of may_select: the mode is not looked at
may_select_any_mode(m, turn, piece) ==
    /\ piece # NoPiece
    /\ \/ turn = WHITE /\ piece.color = WHITE
       \/ turn = BLACK /\ piece.color = BLACK
       \/ m = ANALYSIS

\* the condition of on_click for taking the first click as a selection
may_select(m, turn, piece) ==
    /\ piece # NoPiece
    /\ \/ turn = WHITE /\ piece.color = WHITE /\ m \in {HUMAN_VS_HUMAN, HUMAN_VS_ENGINE}
       \/ turn = BLACK /\ piece.color = BLACK /\ m \in {HUMAN_VS_HUMAN, ENGINE_VS_HUMAN}
       \/ m = ANALYSIS

\* ------------------------------------------------------------------------
\* Engine worker
\* ------------------------------------------------------------------------

NoBoard == [Board EXCEPT !.pieces = [s \in Squares |-> NoPiece]]

\* A thread running engine_calculate.  current: self.engine_thread refers to
\* it.  pc: "start" (self.board not read yet), "thinking" (the engine has been
\* given the position and will answer `result`), "done" (the result is
\* written, the thread has not ended yet).  History, kept for the properties:
\* spawn_board, the live board when the thread was started (kept until the
\* thread reads self.board), and stale, whether a new_game or change_mode
\* has run since the thread was started.
Worker(b) ==
    [ current |-> TRUE, pc |-> "start", spawn_board |-> b, result |-> NoMove,
      stale |-> FALSE ]

\* variant of thread_is_alive: the test is left out
thread_is_alive_never(ws) == FALSE

\* self.engine_thread and self.engine_thread.is_alive()
thread_is_alive(ws) == \E w \in ws : w.current

\* variant of maybe_start_engine_think: the test of self.engine.engine is
\* left out
maybe_start_engine_think_unchecked(s) ==
    IF thread_is_alive(s.threads) THEN s
    ELSE IF is_game_over(s.board) THEN s
    ELSE IF engine_turn(s.mode, s.board.turn)
         THEN [s EXCEPT !.threads = { [w EXCEPT !.current = FALSE] : w \in @ }
                                        \cup { Worker(s.board) }]
         ELSE s

\* the side-to-move test of maybe_start_engine_think and the thread it starts
maybe_start_engine_think(s) ==
    IF ~s.engine_ok THEN s
    ELSE IF thread_is_alive(s.threads) THEN s
    ELSE IF is_game_over(s.board) THEN s
    ELSE IF engine_turn(s.mode, s.board.turn)
         THEN [s EXCEPT !.threads = { [w EXCEPT !.current = FALSE] : w \in @ }
                                        \cup { Worker(s.board) }]
         ELSE s

\* UCIEngine.best_move: a legal move of the position the engine was given, or
\* None when the call fails (no reply in time, a position with no move)
best_move(b) == legal_moves(b) \cup { NoMove }

\* ------------------------------------------------------------------------
\* Session controller
\* ------------------------------------------------------------------------

\* ChessGUI.__init__, before its call of maybe_start_engine_think
ChessGUI(ok) ==
    [ board |-> Board,
      engine_ok |-> ok,                  \* self.engine.engine is not None
      game_clock |-> start_turn(Clock(0), 0),
      move_log |-> ScrollableMoveLog,
      mode |-> HUMAN_VS_ENGINE,
      selected_sq |-> NoSquare,
      valid_dest_sqs |-> {},
      last_move |-> NoMove,
      running |-> TRUE,
      threads |-> {},                    \* the engine threads that are alive
      pending_engine_move |-> NoMove,
      \* history: the pending move was written by a thread started before the
      \* last new_game or change_mode
      pending_stale |-> FALSE,
      \* history: a move that was not legal has been pushed onto the board
      corrupt |-> FALSE ]

\* variant of clear_selection: the destination squares are left as they are
clear_selection_half(s) == [s EXCEPT !.selected_sq = NoSquare]

\* self.selected_sq = None; self.valid_dest_sqs = []
clear_selection(s) == [s EXCEPT !.selected_sq = NoSquare, !.valid_dest_sqs = {}]

\* self.pending_engine_move = None
stop_engine(s) == [s EXCEPT !.pending_engine_move = NoMove, !.pending_stale = FALSE]

\* the promotion default of make_move
with_promotion(b, move) ==
    IF /\ b.pieces[move.from_square].kind = PAWN
       /\ square_rank(move.to_square) \in LastRanks
       /\ move.promotion = NoPromotion
    THEN [move EXCEPT !.promotion = QUEEN]
    ELSE move

\* make_move(move) at time t.  board.san raises when no piece stands on the
\* move's from-square (the clock is stopped by then); nothing catches it and
\* launch() ends.  Any other move is pushed as it is.
make_move(s, move, t) ==
    LET stopped == stop_turn(s.game_clock, s.board.turn, t)
        is_white == (s.board.turn = WHITE)
        mv == with_promotion(s.board, move)
        pushed == push(s.board, mv)
    IN  IF s.board.pieces[move.from_square] = NoPiece
        THEN [s EXCEPT !.game_clock = stopped, !.running = FALSE]
        ELSE maybe_start_engine_think(
               [s EXCEPT !.board = pushed,
                         !.last_move = mv,
                         !.move_log = add_move(@, san(s.board, mv), is_white),
                         !.game_clock = IF s.mode # ANALYSIS
                                        THEN start_turn(stopped, t) ELSE stopped,
                         !.selected_sq = NoSquare,
                         !.valid_dest_sqs = {},
                         !.corrupt = (mv \notin legal_moves(s.board))])

\* on_click(pos) at time t, pos already turned into a square (or OffBoard)
on_click(s, sq, t) ==
    IF s.mode = ENGINE_VS_ENGINE \/ sq = OffBoard THEN s
    ELSE IF s.selected_sq = NoSquare
    THEN IF may_select(s.mode, s.board.turn, s.board.pieces[sq])
         THEN [s EXCEPT !.selected_sq = sq,
                        !.valid_dest_sqs =
                            { m.to_square : m \in { l \in legal_moves(s.board) :
                                                      l.from_square = sq } }]
         ELSE s
    ELSE IF Move(s.selected_sq, sq) \in legal_moves(s.board)
    THEN make_move(s, Move(s.selected_sq, sq), t)
    ELSE clear_selection(s)

\* every thread alive at a reset was started before it
made_stale(ws) == { [w EXCEPT !.stale = TRUE] : w \in ws }

\* new_game, up to the second line that empties the pending slot
new_game_head(s) ==
    LET r == stop_engine(clear_selection([stop_engine(s) EXCEPT !.board = Board]))
    IN  [r EXCEPT !.threads = made_stale(@)]

\* new_game, the rest, at time t
new_game_rest(s, t) ==
    maybe_start_engine_think(
        [s EXCEPT !.game_clock = start_turn(Clock(t), t),
                  !.move_log = clear(@),
                  !.last_move = NoMove])

\* change_mode, up to the second line that empties the pending slot
change_mode_head(s) ==
    LET r == stop_engine(clear_selection(
                 [stop_engine(s) EXCEPT !.mode = next_mode(@), !.board = Board]))
    IN  [r EXCEPT !.last_move = NoMove, !.threads = made_stale(@)]

\* change_mode, the rest, at time t
change_mode_rest(s, t) ==
    maybe_start_engine_think(
        [s EXCEPT !.game_clock = start_turn(Clock(t), t),
                  !.move_log = clear(@)])

\* the outcome that draw_side_panel shows (NoOutcome for None)
NoOutcome == "none"
\* variant of outcome: the repetition is looked at before the material
outcome_repetition_first(s) ==
    IF flag(s.game_clock) /\ s.mode # ANALYSIS THEN "Time forfeit"
    ELSE IF is_checkmate(s.board)
         THEN (IF s.board.turn = BLACK THEN "White wins" ELSE "Black wins")
    ELSE IF is_stalemate(s.board) THEN "Stalemate"
    ELSE IF is_repetition(s.board, 3) \/ is_fivefold_repetition(s.board) THEN "Repetition"
    ELSE IF is_insufficient_material(s.board) THEN "Draw"
    ELSE IF is_fifty_moves(s.board) THEN "50-move rule"
    ELSE NoOutcome

outcome(s) ==
    IF flag(s.game_clock) /\ s.mode # ANALYSIS THEN "Time forfeit"
    ELSE IF is_checkmate(s.board)
         THEN (IF s.board.turn = BLACK THEN "White wins" ELSE "Black wins")
    ELSE IF is_stalemate(s.board) THEN "Stalemate"
    ELSE IF is_insufficient_material(s.board) THEN "Draw"
    ELSE IF is_repetition(s.board, 3) \/ is_fivefold_repetition(s.board) THEN "Repetition"
    ELSE IF is_fifty_moves(s.board) THEN "50-move rule"
    ELSE NoOutcome

\* ------------------------------------------------------------------------
\* Steps
\* ------------------------------------------------------------------------

\* the session is followed while launch() runs and the board holds a position
\* of the game; a position made by an illegal push is outside the rules
\* library's contract
Live == gui.running /\ ~gui.corrupt

\* the model stops a game after MaxPly half-moves
PlyLeft == Len(gui.board.move_stack) < MaxPly

\* handle_events: a left click on the board or beside it
Click(sq) ==
    /\ Live /\ main_pc = "events"
    /\ (on_click(gui, sq, now).board # gui.board => PlyLeft)
    /\ gui' = on_click(gui, sq, now)
    /\ UNCHANGED << main_pc, now >>

\* handle_events: K_ESCAPE
KeyEscape ==
    /\ Live /\ main_pc = "events"
    /\ gui' = clear_selection(gui)
    /\ UNCHANGED << main_pc, now >>

\* handle_events: K_n
KeyN ==
    /\ Live /\ main_pc = "events"
    /\ gui' = new_game_head(gui)
    /\ main_pc' = "new_game"
    /\ UNCHANGED now

NewGameRest ==
    /\ Live /\ main_pc = "new_game"
    /\ gui' = new_game_rest(gui, now)
    /\ main_pc' = "events"
    /\ UNCHANGED now

\* handle_events: K_SPACE
KeySpace ==
    /\ Live /\ main_pc = "events"
    /\ gui' = change_mode_head(gui)
    /\ main_pc' = "change_mode"
    /\ UNCHANGED now

ChangeModeRest ==
    /\ Live /\ main_pc = "change_mode"
    /\ gui' = change_mode_rest(gui, now)
    /\ main_pc' = "events"
    /\ UNCHANGED now

\* handle_engine, the test and the call of make_move (with an empty slot
\* nothing happens and the loop goes on)
HandleEngine ==
    /\ Live /\ main_pc = "events"
    /\ gui.pending_engine_move # NoMove
    /\ PlyLeft
    /\ gui' = make_move(gui, gui.pending_engine_move, now)
    /\ main_pc' = "handle_engine"
    /\ UNCHANGED now

\* handle_engine, its last line: self.pending_engine_move = None
HandleEngineClear ==
    /\ Live /\ main_pc = "handle_engine"
    /\ gui' = stop_engine(gui)
    /\ main_pc' = "events"
    /\ UNCHANGED now

\* engine_calculate, in its thread: self.board is read and handed to the
\* engine, whose answer is m
EngineRead(w, m) ==
    /\ Live /\ w \in gui.threads /\ w.pc = "start"
    /\ m \in best_move(gui.board)
    /\ gui' = [gui EXCEPT !.threads = (@ \ {w}) \cup
                 { [w EXCEPT !.pc = "thinking", !.spawn_board = NoBoard, !.result = m] }]
    /\ UNCHANGED << main_pc, now >>

\* engine_calculate: best_move returns and the result goes into the slot
EngineWrite(w) ==
    /\ Live /\ w \in gui.threads /\ w.pc = "thinking"
    /\ gui' = [gui EXCEPT !.pending_engine_move = w.result,
                          !.pending_stale = (w.stale /\ w.result # NoMove),
                          !.threads = (@ \ {w}) \cup
                              { [w EXCEPT !.pc = "done", !.result = NoMove] }]
    /\ UNCHANGED << main_pc, now >>

\* the thread ends: is_alive() is False from here on
EngineExit(w) ==
    /\ Live /\ w \in gui.threads /\ w.pc = "done"
    /\ gui' = [gui EXCEPT !.threads = @ \ {w}]
    /\ UNCHANGED << main_pc, now >>

\* wall-clock time passes
Advance ==
    /\ Live /\ now + Step <= MaxSteps * Step
    /\ now' = now + Step
    /\ UNCHANGED << gui, main_pc >>

Init ==
    /\ \E ok \in BOOLEAN : gui = maybe_start_engine_think(ChessGUI(ok))
    /\ main_pc = "events"
    /\ now = 0

Next ==
    \/ \E sq \in Squares \cup {OffBoard} : Click(sq)
    \/ KeyEscape
    \/ KeyN
    \/ NewGameRest
    \/ KeySpace
    \/ ChangeModeRest
    \/ HandleEngine
    \/ HandleEngineClear
    \/ \E w \in gui.threads : \E m \in best_move(gui.board) : EngineRead(w, m)
    \/ \E w \in gui.threads : EngineWrite(w)
    \/ \E w \in gui.threads : EngineExit(w)
    \/ Advance

Spec == Init /\ [][Next]_vars

\* The session with the wall clock left out.  No handler reads game_clock to
\* decide anything (flag() is read by draw_side_panel alone), so board, mode,
\* selection, slot and threads pass through the same states as under Spec.
NextUntimed ==
    \/ \E sq \in Squares \cup {OffBoard} : Click(sq)
    \/ KeyEscape
    \/ KeyN
    \/ NewGameRest
    \/ KeySpace
    \/ ChangeModeRest
    \/ HandleEngine
    \/ HandleEngineClear
    \/ \E w \in gui.threads : \E m \in best_move(gui.board) : EngineRead(w, m)
    \/ \E w \in gui.threads : EngineWrite(w)
    \/ \E w \in gui.threads : EngineExit(w)

SpecUntimed == Init /\ [][NextUntimed]_vars

\* The session whose engine failed to start (UCIEngine.engine is None): the
\* human's clicks and keys, and the wall clock.
InitHuman ==
    /\ gui = maybe_start_engine_think(ChessGUI(FALSE))
    /\ main_pc = "events"
    /\ now = 0

NextHuman ==
    \/ \E sq \in Squares \cup {OffBoard} : Click(sq)
    \/ KeyEscape
    \/ KeyN
    \/ NewGameRest
    \/ KeySpace
    \/ ChangeModeRest
    \/ Advance

SpecHuman == InitHuman /\ [][NextHuman]_vars

\* One game in the mode the session starts in (HumanVsEngine), with no
\* new_game and no change_mode: the human's clicks, the engine thread and the
\* wall clock.
NextGame ==
    \/ \E sq \in Squares \cup {OffBoard} : Click(sq)
    \/ KeyEscape
    \/ HandleEngine
    \/ HandleEngineClear
    \/ \E w \in gui.threads : \E m \in best_move(gui.board) : EngineRead(w, m)
    \/ \E w \in gui.threads : EngineWrite(w)
    \/ \E w \in gui.threads : EngineExit(w)
    \/ Advance

SpecGame == Init /\ [][NextGame]_vars

\* The main loop tick by tick.  A tick is one handle_events pass, which
\* handles every event that is queued, and then one handle_engine call.
\* main_pc is "events" while the pass has applied no move and "moved" once it
\* has; handle_engine ends the tick.  change_mode is taken in one piece here.
InPass == main_pc \in {"events", "moved"}

TickClick(sq) ==
    /\ Live /\ InPass
    /\ (on_click(gui, sq, now).board # gui.board => PlyLeft)
    /\ gui' = on_click(gui, sq, now)
    /\ main_pc' = IF gui'.board # gui.board THEN "moved" ELSE main_pc
    /\ UNCHANGED now

TickKeyEscape ==
    /\ Live /\ InPass
    /\ gui' = clear_selection(gui)
    /\ UNCHANGED << main_pc, now >>

TickKeySpace ==
    /\ Live /\ InPass
    /\ gui' = change_mode_rest(change_mode_head(gui), now)
    /\ UNCHANGED << main_pc, now >>

\* handle_engine, and with it the end of the tick
TickHandleEngine ==
    /\ Live /\ InPass
    /\ gui.pending_engine_move # NoMove => PlyLeft
    /\ gui' = IF gui.pending_engine_move # NoMove
              THEN stop_engine(make_move(gui, gui.pending_engine_move, now))
              ELSE gui
    /\ main_pc' = "events"
    /\ UNCHANGED now

NextTick ==
    \/ \E sq \in Squares \cup {OffBoard} : TickClick(sq)
    \/ TickKeyEscape
    \/ TickKeySpace
    \/ TickHandleEngine
    \/ \E w \in gui.threads : \E m \in best_move(gui.board) : EngineRead(w, m)
    \/ \E w \in gui.threads : EngineWrite(w)
    \/ \E w \in gui.threads : EngineExit(w)

SpecTick == Init /\ [][NextTick]_vars

\* The session with an engine that has started and whose every call returns a
\* legal move of the position it was given (None only for a position that has
\* no move).  The main loop runs on and the threads are scheduled: what is
\* left to chance is what the user does and when.
EngineReadLegal(w) ==
    \E m \in (IF legal_moves(gui.board) # {} THEN legal_moves(gui.board) ELSE {NoMove}) :
        EngineRead(w, m)

InitEngine ==
    /\ gui = maybe_start_engine_think(ChessGUI(TRUE))
    /\ main_pc = "events"
    /\ now = 0

NextEngine ==
    \/ \E sq \in Squares \cup {OffBoard} : Click(sq)
    \/ KeyN
    \/ NewGameRest
    \/ KeySpace
    \/ ChangeModeRest
    \/ HandleEngine
    \/ HandleEngineClear
    \/ \E w \in gui.threads : EngineReadLegal(w)
    \/ \E w \in gui.threads : EngineWrite(w)
    \/ \E w \in gui.threads : EngineExit(w)

FairEngine ==
    /\ WF_vars(NewGameRest)
    /\ WF_vars(ChangeModeRest)
    /\ WF_vars(HandleEngine)
    /\ WF_vars(HandleEngineClear)
    /\ WF_vars(\E w \in gui.threads : EngineReadLegal(w))
    /\ WF_vars(\E w \in gui.threads : EngineWrite(w))
    /\ WF_vars(\E w \in gui.threads : EngineExit(w))

SpecEngine == InitEngine /\ [][NextEngine]_vars /\ FairEngine

\* One game of the engine against itself, with no input of the user: the
\* session has been brought to EngineVsEngine by change_mode while no thread
\* was alive.
InitEvE ==
    /\ gui = maybe_start_engine_think([ChessGUI(TRUE) EXCEPT !.mode = ENGINE_VS_ENGINE])
    /\ main_pc = "events"
    /\ now = 0

NextEvE ==
    \/ HandleEngine
    \/ HandleEngineClear
    \/ \E w \in gui.threads : \E m \in best_move(gui.board) : EngineRead(w, m)
    \/ \E w \in gui.threads : EngineWrite(w)
    \/ \E w \in gui.threads : EngineExit(w)

SpecEvE == InitEvE /\ [][NextEvE]_vars

\* The move log taken by itself: add_move with any notation and colour,
\* clear and the mouse wheel, on a log that is empty or holds the full moves
\* of a game that has nearly filled the visible lines.
LogSans == { san(Board, m) : m \in { l \in legal_moves(Board) : l.promotion = NoPromotion } }

RECURSIVE Played(_)
Played(k) ==
    IF k = 0 THEN ScrollableMoveLog
    ELSE LET s == CHOOSE x \in LogSans : TRUE
         IN  add_move(add_move(Played(k - 1), s, TRUE), s, FALSE)

LogFits(l) ==
    \/ Len(l.moves) <= MaxAppend
    \/ /\ Len(l.moves) >= visible_lines - 1
       /\ Len(l.moves) <= visible_lines - 1 + MaxAppend

LogAdd(s, is_white) ==
    /\ LogFits(add_move(gui.move_log, s, is_white))
    /\ gui' = [gui EXCEPT !.move_log = add_move(@, s, is_white)]
    /\ UNCHANGED << main_pc, now >>

LogClear ==
    /\ gui' = [gui EXCEPT !.move_log = clear(@)]
    /\ UNCHANGED << main_pc, now >>

LogWheel(y, inside) ==
    /\ gui' = [gui EXCEPT !.move_log = handle_mouse_wheel(@, y, inside)]
    /\ UNCHANGED << main_pc, now >>

InitLedger ==
    /\ \E l \in { ScrollableMoveLog, Played(visible_lines - 1) } :
         gui = [ChessGUI(FALSE) EXCEPT !.move_log = l]
    /\ main_pc = "events"
    /\ now = 0

NextLedger ==
    \/ \E s \in LogSans, is_white \in BOOLEAN : LogAdd(s, is_white)
    \/ LogClear
    \/ \E y \in {-1, 1}, inside \in BOOLEAN : LogWheel(y, inside)

SpecLedger == InitLedger /\ [][NextLedger]_vars

\* Positions of a game in progress, for what draw_side_panel shows of them:
\* the starting position, a mate (the pawn has promoted on a4), a stalemate
\* (Black's king on a4 shut in by a queen on c3) and bare kings.
MatePieces == MovePieces(StartPieces, [Move(square(0, NRanks - 2), square(0, NRanks - 1))
                                         EXCEPT !.promotion = QUEEN], WHITE)
StalematePieces ==
    [ s \in Squares |->
        CASE s = square(NFiles - 1, 0) -> Piece(WHITE, KING)
          [] s = square(NFiles - 1, NRanks - 2) -> Piece(WHITE, QUEEN)
          [] s = square(0, NRanks - 1) -> Piece(BLACK, KING)
          [] OTHER -> NoPiece ]
BarePieces ==
    [ s \in Squares |->
        CASE s = square(0, 0) -> Piece(WHITE, KING)
          [] s = square(NFiles - 1, NRanks - 1) -> Piece(BLACK, KING)
          [] OTHER -> NoPiece ]

\* a board in mid-game: the placement, the side to move, how often the
\* position has occurred before, and the half-moves since the last capture or
\* pawn move (the moves that led there are left out)
MidGame(pieces, turn, before, quiet) ==
    [ Board EXCEPT !.pieces = pieces, !.turn = turn, !.halfmove_clock = quiet,
                   !.stack = [i \in 1 .. before |-> [pieces |-> pieces, turn |-> turn]] ]

MidGameBoards ==
    { MidGame(p[1], p[2], before, quiet) :
        p \in { << StartPieces, WHITE >>, << MatePieces, BLACK >>,
                << StalematePieces, BLACK >>, << BarePieces, WHITE >> },
        before \in {0, 2, 4},
        quiet \in {0, 100} }

\* a session without engine taken up in mid-game, in any mode, with White's
\* time intact or used up
InitOutcome ==
    /\ \E b \in MidGameBoards, m \in Mode, w \in {START_TIME, 0} :
         gui = [ChessGUI(FALSE) EXCEPT !.board = b, !.mode = m,
                                       !.game_clock.remaining[WHITE] = w]
    /\ main_pc = "events"
    /\ now = 0

SpecOutcome == InitOutcome /\ [][NextHuman]_vars

\* ------------------------------------------------------------------------
\* Properties
\* ------------------------------------------------------------------------

\* the threads a step has started
Spawned == { w \in gui'.threads \ gui.threads : w.pc = "start" /\ ~w.stale }
\* the step is handle_engine calling make_move
AppliesEngineMove == main_pc = "events" /\ main_pc' = "handle_engine"
\* the step pushes a move onto the board
PushesMove == Len(gui'.board.move_stack) = Len(gui.board.move_stack) + 1
\* the move on top of a board's move stack
Top(b) == b.move_stack[Len(b.move_stack)]

\* C1: a result of a thread that was started before a new_game or change_mode
\* is never applied: when handle_engine finds such a result in the slot, it
\* neither pushes it onto the board nor appends it to the move log.
C1_StaleResultNotApplied ==
    [][ (AppliesEngineMove /\ gui.pending_stale)
          => (gui'.board = gui.board /\ gui'.move_log = gui.move_log) ]_vars

\* C2: every move that make_move pushes, from on_click or from handle_engine,
\* is a legal move of the position it is pushed onto.
C2_PushedMovesAreLegal ==
    [][ PushesMove => Top(gui'.board) \in legal_moves(gui.board) ]_vars

\* C3: at most one engine thread is alive in every reachable state.
C3_AtMostOneWorker == Cardinality(gui.threads) <= 1

\* a thread outlived a reset, and the reset's maybe_start_engine_think found
\* the engine to move and started no second thread
C3_Witness ==
    /\ main_pc = "events"
    /\ \E w \in gui.threads : w.stale
    /\ engine_turn(gui.mode, gui.board.turn)
    /\ ~is_game_over(gui.board)
    /\ gui.engine_ok

\* C4: the position a thread hands to the engine is the position of the live
\* board at the time the thread was started.
C4_WorkerReadsSpawnPosition ==
    [][ \A w \in gui.threads :
          (w.pc = "start" /\ \E w2 \in gui'.threads : w2.pc = "thinking")
            => gui.board = w.spawn_board ]_vars

\* C5: a second click on a square that makes no legal move with the selected
\* square, now or Step seconds into the turn, leaves board, clock and move
\* log as they are and clears selected_sq and valid_dest_sqs.
C5_IllegalClickChangesNothing ==
    \A sq \in Squares, t \in {now, now + Step} :
      ( /\ Live /\ main_pc = "events"
        /\ gui.selected_sq # NoSquare
        /\ Move(gui.selected_sq, sq) \notin legal_moves(gui.board) )
      => LET r == on_click(gui, sq, t)
         IN  /\ r.board = gui.board
             /\ r.game_clock = gui.game_clock
             /\ r.move_log = gui.move_log
             /\ r.selected_sq = NoSquare
             /\ r.valid_dest_sqs = {}

\* after the engine's reply the human has selected a piece that has a legal
\* move, and some square makes no legal move with it
C5_Witness ==
    /\ Live /\ main_pc = "events"
    /\ gui.mode = HUMAN_VS_ENGINE
    /\ Len(gui.board.move_stack) = 2
    /\ gui.selected_sq # NoSquare
    /\ gui.valid_dest_sqs # {}
    /\ \E sq \in Squares : Move(gui.selected_sq, sq) \notin legal_moves(gui.board)

\* the order of the modes as the specification gives it
ModeOrder ==
    << HUMAN_VS_HUMAN, HUMAN_VS_ENGINE, ENGINE_VS_HUMAN, ENGINE_VS_ENGINE, ANALYSIS >>
PlaceOf(m) == CHOOSE i \in 1 .. Len(ModeOrder) : ModeOrder[i] = m
Following(m) == ModeOrder[(PlaceOf(m) % Len(ModeOrder)) + 1]

\* C6: change_mode moves to the next mode of ModeOrder, from the last to the
\* first; five calls in a row pass through the four other modes in that
\* order and end at the mode they began with.
C6_ModeCycle ==
    /\ [][ (main_pc = "events" /\ main_pc' = "change_mode")
             => gui'.mode = Following(gui.mode) ]_vars
    /\ [](\A m \in Mode :
            LET m1 == next_mode(m)
                m2 == next_mode(m1)
                m3 == next_mode(m2)
                m4 == next_mode(m3)
                m5 == next_mode(m4)
            IN  /\ << m1, m2, m3, m4 >> =
                     << Following(m), Following(Following(m)),
                        Following(Following(Following(m))),
                        Following(Following(Following(Following(m)))) >>
                /\ { m1, m2, m3, m4 } = Mode \ {m}
                /\ m5 = m)

\* change_mode has just gone from the last mode to the first
C6_Witness == gui.mode = HUMAN_VS_HUMAN /\ main_pc = "change_mode"

\* C7: when change_mode returns, the board is the starting position with
\* White to move, both sides have the full start time, the move log is empty
\* with counter 1 and not waiting for Black, nothing is selected and the
\* pending slot is empty.
C7_ChangeModeResetsAll ==
    [][ (main_pc = "change_mode" /\ main_pc' = "events")
          => /\ gui'.board = Board
             /\ \A c \in Colors : gui'.game_clock.remaining[c] = START_TIME
             /\ gui'.move_log.moves = << >>
             /\ gui'.move_log.current_move_number = 1
             /\ gui'.move_log.waiting_for_black = FALSE
             /\ gui'.selected_sq = NoSquare
             /\ gui'.valid_dest_sqs = {}
             /\ gui'.pending_engine_move = NoMove ]_vars

\* the pairs of mode and side to move that the specification gives the engine
EnginePair(m, side) ==
    \/ side = WHITE /\ (m = ENGINE_VS_HUMAN \/ m = ENGINE_VS_ENGINE)
    \/ side = BLACK /\ (m = HUMAN_VS_ENGINE \/ m = ENGINE_VS_ENGINE)

\* C8: who moves depends on mode and side to move alone, and every pair is
\* the engine's or the human's, never both: a thread is started only for an
\* engine pair, on_click takes a selection only for the other pairs, and no
\* thread is started in Analysis mode.
C8_TurnControl ==
    /\ [][ Spawned # {} => (EnginePair(gui'.mode, gui'.board.turn)
                            /\ gui'.mode # ANALYSIS) ]_vars
    /\ [](\A sq \in Squares :
            (gui.selected_sq = NoSquare /\ on_click(gui, sq, now).selected_sq # NoSquare)
              => ~EnginePair(gui.mode, gui.board.turn))
    /\ [](\A m \in Mode, side \in Colors :
            /\ engine_turn(m, side) = EnginePair(m, side)
            /\ (\E k \in {KING, PAWN} : may_select(m, side, Piece(side, k)))
                 = ~EnginePair(m, side))

\* the engine has just been given Black's turn in HumanVsEngine, and no click
\* selects anything there
C8_Witness ==
    /\ gui.mode = HUMAN_VS_ENGINE /\ gui.board.turn = BLACK
    /\ main_pc = "events"
    /\ \E w \in gui.threads : w.pc = "start" /\ ~w.stale
    /\ \A sq \in Squares : on_click(gui, sq, now).selected_sq = NoSquare

\* the terminal conditions of the specification, in a session state
Terminal(s) ==
    \/ flag(s.game_clock) /\ s.mode # ANALYSIS
    \/ is_checkmate(s.board)
    \/ is_stalemate(s.board)
    \/ is_insufficient_material(s.board)
    \/ is_repetition(s.board, 3)
    \/ is_fivefold_repetition(s.board)
    \/ is_fifty_moves(s.board)

\* C9: no thread is started when the game is terminal.
C9_NoSpawnWhenTerminal == [][ Spawned # {} => ~Terminal(gui') ]_vars

\* C10: on a fresh 300-second clock, once 301 seconds have passed since the
\* turn began and no move has been made, flag() is true and, outside
\* Analysis mode, the outcome shown is the time forfeit.
C10_FlagAfter301 ==
    ( /\ main_pc = "events"
      /\ gui.board.move_stack = << >>
      /\ \A c \in Colors : gui.game_clock.remaining[c] = 300
      /\ now - gui.game_clock.last_tick >= 301 )
    => /\ flag(gui.game_clock)
       /\ gui.mode # ANALYSIS => outcome(gui) = "Time forfeit"

\* the terminal conditions in the order of the specification, each with the
\* outcomes that report it
Precedence(s) ==
    << [holds |-> flag(s.game_clock) /\ s.mode # ANALYSIS, shown |-> {"Time forfeit"}],
       [holds |-> is_checkmate(s.board), shown |-> {"White wins", "Black wins"}],
       [holds |-> is_stalemate(s.board), shown |-> {"Stalemate"}],
       [holds |-> is_insufficient_material(s.board), shown |-> {"Draw"}],
       [holds |-> is_repetition(s.board, 3) \/ is_fivefold_repetition(s.board),
        shown |-> {"Repetition"}],
       [holds |-> is_fifty_moves(s.board), shown |-> {"50-move rule"}] >>

\* C11: the outcome shown is that of the first condition of Precedence that
\* holds, and none when no condition holds; in Analysis mode a flagged clock
\* never shows the time forfeit.
C11_OutcomePrecedence ==
    LET p == Precedence(gui)
        matches == { i \in 1 .. Len(p) : p[i].holds }
    IN  /\ matches = {} => outcome(gui) = NoOutcome
        /\ \A i \in matches :
             (\A j \in matches : i <= j) => outcome(gui) \in p[i].shown
        /\ (gui.mode = ANALYSIS) => outcome(gui) # "Time forfeit"

\* in Analysis mode, after a move: a flagged clock, bare kings and a hundred
\* quiet half-moves all at once, and the draw by material is what is shown
C11_Witness ==
    /\ gui.mode = ANALYSIS
    /\ gui.board.move_stack # << >>
    /\ flag(gui.game_clock)
    /\ is_insufficient_material(gui.board)
    /\ is_fifty_moves(gui.board)
    /\ outcome(gui) = "Draw"

\* what has been deducted from both sides together since the clock was made
Deducted(c) == (START_TIME - c.remaining[WHITE]) + (START_TIME - c.remaining[BLACK])

\* C12: no stretch of time is deducted twice.  In Analysis mode make_move
\* stops the clock and does not restart it, so the clock runs from its making
\* at the last reset; what has been deducted from both sides together must
\* not be more than the time that has passed since then.
C12_NoDoubleDeduction ==
    (main_pc = "events" /\ gui.mode = ANALYSIS)
      => Deducted(gui.game_clock) <= now - gui.game_clock.last_tick

\* C13: outside Analysis mode every move deducts from the side that was to
\* move exactly the time since the clock was last started, deducts nothing
\* from the other side and starts the clock again; so each side's deductions
\* add up to the time that passed during its own turns, and both sides'
\* together never to more than the time up to the last start.
C13_DeductionsMatchElapsed ==
    /\ [][ (PushesMove /\ gui.mode # ANALYSIS)
             => LET side == gui.board.turn
                    spent == now - gui.game_clock.last_tick
                IN  /\ gui'.game_clock.remaining[side] =
                          gui.game_clock.remaining[side] - spent
                    /\ gui'.game_clock.remaining[Other(side)] =
                          gui.game_clock.remaining[Other(side)]
                    /\ gui'.game_clock.last_tick = now ]_vars
    /\ []((main_pc = "events" /\ gui.mode # ANALYSIS)
            => Deducted(gui.game_clock) <= gui.game_clock.last_tick)

\* the human and the engine have each moved after thinking for a while
C13_Witness ==
    /\ gui.mode # ANALYSIS
    /\ Len(gui.board.move_stack) = 2
    /\ \A c \in Colors : gui.game_clock.remaining[c] < START_TIME
    /\ Deducted(gui.game_clock) = now

\* C14: neither side's remaining time is ever below zero, flagged or not.
C14_RemainingNeverNegative ==
    \A c \in Colors : gui.game_clock.remaining[c] >= 0

\* the half-moves of a ledger, read in order: of each entry the white field,
\* then the black field when it is not empty
RECURSIVE Flatten(_)
Flatten(moves) ==
    IF moves = << >> THEN << >>
    ELSE LET e == Head(moves)
         IN  << e.white >> \o (IF e.black # NoSan THEN << e.black >> ELSE << >>)
               \o Flatten(Tail(moves))

\* the notation of each move on the board's move stack, taken in the
\* position it was pushed onto
Notations(b) ==
    [ i \in 1 .. Len(b.move_stack) |->
        san([Board EXCEPT !.pieces = b.stack[i].pieces, !.turn = b.stack[i].turn],
            b.move_stack[i]) ]

\* C15: as long as the moves applied since the last reset were legal, the
\* half-moves of the ledger are the notations of the moves pushed onto the
\* board, in the order of pushing, one for each move.
C15_LedgerMatchesBoard ==
    (main_pc \in {"events", "handle_engine"} /\ ~gui.corrupt /\ gui.running)
      => Flatten(gui.move_log.moves) = Notations(gui.board)

\* a full move is on the ledger: White's half-move and Black's reply
C15_Witness ==
    /\ main_pc = "events" /\ ~gui.corrupt
    /\ Len(gui.board.move_stack) = 2
    /\ Len(gui.move_log.moves) = 1
    /\ gui.move_log.moves[1].black # NoSan

\* the entries of a ledger are in ascending order of their numbers
Ascending(moves) ==
    \A i, j \in 1 .. Len(moves) : i <= j => moves[i].num <= moves[j].num

\* C16, as stated: after any add_move and clear calls the entries are in
\* ascending order of number, and an entry with a black half has a white half.
C16_BlackOnlyAfterWhite ==
    LET moves == gui.move_log.moves
    IN  /\ Ascending(moves)
        /\ \A i \in 1 .. Len(moves) : moves[i].black # NoSan => moves[i].white # NoSan

\* C16, amended: after any add_move and clear calls the entries are in
\* ascending order of number and each holds a white half, a black half or
\* both; a black half joins an entry only while its white half is awaited,
\* and an entry with a black half alone is opened only by a black append
\* made while no white half is awaited.
C16_BlackOnlyWhenNotAwaited ==
    /\ [](LET moves == gui.move_log.moves
          IN  /\ Ascending(moves)
              /\ \A i \in 1 .. Len(moves) :
                   moves[i].white # NoSan \/ moves[i].black # NoSan)
    /\ [][ LET old == gui.move_log
               new == gui'.move_log
               n == Len(new.moves)
           IN  (new.moves # old.moves /\ new.moves # << >>)
                 => \/ /\ n = Len(old.moves)
                       /\ old.waiting_for_black
                       /\ old.moves[n].white # NoSan /\ old.moves[n].black = NoSan
                       /\ new.moves = [old.moves EXCEPT ![n].black = new.moves[n].black]
                    \/ /\ n = Len(old.moves) + 1
                       /\ SubSeq(new.moves, 1, n - 1) = old.moves
                       /\ (new.moves[n].white = NoSan) # (new.moves[n].black = NoSan)
                       /\ new.moves[n].white = NoSan
                            => (~old.waiting_for_black \/ old.moves = << >>) ]_vars

\* a ledger that holds an entry with a black half alone, and after it a full
\* entry
C16_Witness ==
    \E i, j \in 1 .. Len(gui.move_log.moves) :
        /\ i < j
        /\ gui.move_log.moves[i].white = NoSan
        /\ gui.move_log.moves[j].white # NoSan /\ gui.move_log.moves[j].black # NoSan

\* C17: what add_move does to any ledger.  A white append opens an entry
\* numbered with the counter, white half set and black half empty, and sets
\* waiting_for_black.  A black append while a white half is awaited fills the
\* black half of the last entry, adds one to the counter and clears
\* waiting_for_black.  A black append while none is awaited opens an entry
\* with the black half alone and adds one to the counter all the same.
C17_AddMoveCases ==
    \A s \in LogSans :
      LET l == gui.move_log
          n == Len(l.moves)
          w == add_move(l, s, TRUE)
          b == add_move(l, s, FALSE)
      IN  /\ w.moves = l.moves \o << [num |-> l.current_move_number,
                                      white |-> s, black |-> NoSan] >>
          /\ w.waiting_for_black
          /\ w.current_move_number = l.current_move_number
          /\ l.waiting_for_black
               => /\ Len(b.moves) = n
                  /\ \A i \in 1 .. n - 1 : b.moves[i] = l.moves[i]
                  /\ b.moves[n] = [num |-> l.moves[n].num, white |-> l.moves[n].white,
                                   black |-> s]
                  /\ b.current_move_number = l.current_move_number + 1
                  /\ ~b.waiting_for_black
          /\ ~l.waiting_for_black
               => /\ b.moves = l.moves \o << [num |-> l.current_move_number,
                                              white |-> NoSan, black |-> s] >>
                  /\ b.current_move_number = l.current_move_number + 1
                  /\ ~b.waiting_for_black

\* a ledger on which all three cases have happened: a full entry, an entry
\* with the black half alone, and a white half that awaits its reply
C17_Witness ==
    LET moves == gui.move_log.moves
    IN  /\ gui.move_log.waiting_for_black
        /\ \E i \in 1 .. Len(moves) : moves[i].white # NoSan /\ moves[i].black # NoSan
        /\ \E i \in 1 .. Len(moves) : moves[i].white = NoSan /\ moves[i].black # NoSan
        /\ moves[Len(moves)].black = NoSan

\* the largest scroll offset of a ledger, as the specification gives it
MaxScrollOf(l) == Max(0, Len(l.moves) - visible_lines) * line_height

\* C18: after every add_move the scroll offset is max_scroll, and max_scroll
\* is max(0, entries - visible lines) * line_height; after every turn of the
\* mouse wheel, and in every reachable state, the offset lies between 0 and
\* max_scroll.
C18_ScrollWithinLimits ==
    LET l == gui.move_log
    IN  /\ 0 <= l.scroll_y /\ l.scroll_y <= l.max_scroll
        /\ l.max_scroll = MaxScrollOf(l)
        /\ \A s \in LogSans, is_white \in BOOLEAN :
             LET r == add_move(l, s, is_white)
             IN  r.scroll_y = r.max_scroll /\ r.max_scroll = MaxScrollOf(r)
        /\ \A y \in {-1, 1}, inside \in BOOLEAN :
             LET r == handle_mouse_wheel(l, y, inside)
             IN  0 <= r.scroll_y /\ r.scroll_y <= r.max_scroll
                   /\ r.max_scroll = l.max_scroll

\* the log holds more entries than there are visible lines and has been
\* scrolled up from the bottom
C18_Witness ==
    /\ Len(gui.move_log.moves) > visible_lines + 1
    /\ gui.move_log.max_scroll > line_height
    /\ gui.move_log.scroll_y < gui.move_log.max_scroll

\* the step is a click of the human that makes a move
HumanMoves == main_pc = "events" /\ main_pc' = "events" /\ PushesMove

\* C19: in HumanVsEngine mode, from the starting position, the human's first
\* move leaves the ledger with the one entry (1, move, empty), Black to move
\* and an engine computation started; when the engine has answered with a
\* legal reply and handle_engine runs, the reply fills the black half of
\* entry 1 and White is to move.
C19_HumanThenEngine ==
    /\ [][ ( /\ HumanMoves
             /\ gui.mode = HUMAN_VS_ENGINE /\ gui.engine_ok
             /\ gui.board = Board /\ gui.move_log.moves = << >> )
           => /\ gui'.move_log.moves = << Entry(1, san(Board, Top(gui'.board)), NoSan) >>
              /\ gui'.board.turn = BLACK
              /\ Spawned # {} ]_vars
    /\ [][ ( /\ AppliesEngineMove
             /\ gui.mode = HUMAN_VS_ENGINE
             /\ Len(gui.board.move_stack) = 1 /\ gui.board.turn = BLACK
             /\ Len(gui.move_log.moves) = 1 /\ gui.move_log.waiting_for_black
             /\ gui.pending_engine_move \in legal_moves(gui.board) )
           => /\ gui'.move_log.moves =
                    << [gui.move_log.moves[1] EXCEPT
                          !.black = san(gui.board, gui.pending_engine_move)] >>
              /\ gui'.board.turn = WHITE ]_vars

\* C20: at most one move is applied in one tick of the main loop: a move is
\* pushed, by a click or by handle_engine, only when the tick's handle_events
\* pass has applied none before it.
C20_OneMovePerTick ==
    [][ PushesMove => main_pc = "events" ]_vars

\* the step is a thread's write of a failed call (best_move returned None)
WritesNoMove ==
    \E w \in gui.threads :
        /\ w.pc = "thinking" /\ w.result = NoMove
        /\ [w EXCEPT !.pc = "done"] \in gui'.threads
\* the side to move is played by the human
HumanTurn(s) == s.mode # ENGINE_VS_ENGINE /\ ~engine_turn(s.mode, s.board.turn)

\* C21: when the engine did not start, no thread is ever started and the slot
\* stays empty; when a call of best_move fails, the write of its result leaves
\* board, clock and move log as they are and the slot empty, so that
\* handle_engine applies nothing; a thread is started only by new_game,
\* change_mode or a move that is applied; and on the human's turn the human's
\* pieces can be selected and every move the two clicks denote is applied.
C21_EngineFailureIsHarmless ==
    /\ [] (~gui.engine_ok => (gui.threads = {} /\ gui.pending_engine_move = NoMove))
    /\ [][ WritesNoMove =>
             /\ gui'.board = gui.board
             /\ gui'.game_clock = gui.game_clock
             /\ gui'.move_log = gui.move_log
             /\ gui'.pending_engine_move = NoMove ]_vars
    /\ [][ PushesMove /\ main_pc' = "handle_engine" => gui.pending_engine_move # NoMove ]_vars
    /\ [][ Spawned # {} => (PushesMove \/ main_pc \in {"new_game", "change_mode"}) ]_vars
    /\ [] ( (Live /\ main_pc = "events" /\ HumanTurn(gui)) =>
              \A sq \in Squares :
                 /\ (gui.board.pieces[sq].color = gui.board.turn /\ gui.selected_sq = NoSquare)
                      => on_click(gui, sq, now).selected_sq = sq
                 /\ (gui.selected_sq # NoSquare
                       /\ Move(gui.selected_sq, sq) \in legal_moves(gui.board))
                      => on_click(gui, sq, now).board
                            = push(gui.board, Move(gui.selected_sq, sq)) )

\* the engine's call for Black's first move has failed: its thread has written
\* None and nothing is applied
C21_Witness ==
    /\ main_pc = "events" /\ gui.mode = HUMAN_VS_ENGINE /\ gui.engine_ok
    /\ Len(gui.board.move_stack) = 1 /\ gui.board.turn = BLACK
    /\ gui.pending_engine_move = NoMove
    /\ \E w \in gui.threads : w.pc = "done" /\ ~w.stale

\* the selected pawn's move to `sq` on the last rank, promoting to a queen
QueenMove(s, sq) == [from_square |-> s.selected_sq, to_square |-> sq, promotion |-> QUEEN]

\* C22: with a pawn selected, a click on a last-rank square the pawn can
\* legally reach applies the move with promotion to the queen: the board
\* holds the pushed move and the move log's last entry records the promotion.
C22_ClickPromotesToQueen ==
    \A sq \in Squares :
      ( /\ Live /\ main_pc = "events"
        /\ gui.selected_sq # NoSquare
        /\ QueenMove(gui, sq) \in legal_moves(gui.board) )
      => LET after == on_click(gui, sq, now)
         IN  /\ after.board = push(gui.board, QueenMove(gui, sq))
             /\ after.move_log.moves # << >>
             /\ LET e == after.move_log.moves[Len(after.move_log.moves)]
                IN  QUEEN \in {e.white.promotion, e.black.promotion}

\* C23: new_game leaves the mode as it is, and when it returns the board is
\* the starting position, both sides have the full start time, the move log
\* is empty, nothing is selected, there is no last move and the pending slot
\* is empty; apart from the resets of new_game and change_mode the board
\* changes only by a move that make_move pushes.
C23_NewGameResets ==
    /\ [][ (main_pc = "events" /\ main_pc' = "new_game") => gui'.mode = gui.mode ]_vars
    /\ [][ (main_pc = "new_game" /\ main_pc' = "events")
             => /\ gui'.mode = gui.mode
                /\ gui'.board = Board
                /\ \A c \in Colors : gui'.game_clock.remaining[c] = START_TIME
                /\ gui'.move_log.moves = << >>
                /\ gui'.selected_sq = NoSquare
                /\ gui'.valid_dest_sqs = {}
                /\ gui'.last_move = NoMove
                /\ gui'.pending_engine_move = NoMove ]_vars
    /\ [][ gui'.board # gui.board
             => \/ PushesMove /\ gui'.board = push(gui.board, gui'.last_move)
                \/ main_pc' \in {"new_game", "change_mode"} ]_vars

\* the engine is to move in a game that is not over and that the model follows
EngineToMove(s) ==
    /\ s.running /\ ~s.corrupt /\ s.engine_ok
    /\ ~is_game_over(s.board)
    /\ engine_turn(s.mode, s.board.turn)
\* a thread has yet to write its result
Computing(s) == \E w \in s.threads : w.pc \in {"start", "thinking"}

\* C24: with an engine that always answers with a legal move, whenever the
\* main loop stands between two handlers with the engine to move in a game
\* that is not over, a thread is computing or a result waits in the pending
\* slot; and from there a move is applied to the board, unless the user
\* resets the game first.
C24_NoEngineTurnStalls ==
    /\ [] ( (main_pc = "events" /\ EngineToMove(gui))
              => (Computing(gui) \/ gui.pending_engine_move # NoMove) )
    /\ \A n \in 0 .. (MaxPly - 1) :
         (main_pc = "events" /\ EngineToMove(gui) /\ Len(gui.board.move_stack) = n)
           ~> (Len(gui.board.move_stack) # n \/ main_pc \in {"new_game", "change_mode"}
                 \/ ~gui.running \/ gui.corrupt)

\* the step is a thread storing its result
WritesResult ==
    \E w \in gui.threads : w.pc = "thinking" /\ [w EXCEPT !.pc = "done", !.result = NoMove] \in gui'.threads
\* the slot holds a result of a thread started since the last reset
HoldsResult(s) == s.pending_engine_move # NoMove /\ ~s.pending_stale

\* C25: no result of a thread started since the last reset is lost: a thread
\* never stores its result over such a result that handle_engine has not
\* taken yet, and when handle_engine empties the slot after make_move, the
\* slot holds nothing but the move that make_move has just applied.
C25_HandoffLosesNothing ==
    /\ [][ (WritesResult /\ main_pc = "events") => ~HoldsResult(gui) ]_vars
    /\ [][ (main_pc = "handle_engine" /\ main_pc' = "events" /\ HoldsResult(gui))
             => gui.pending_engine_move = gui.last_move ]_vars

\* C26: a click never moves a piece for the engine: whenever a click would
\* push a move, the side to move is the human's under the current mode and
\* the piece moved is of that side; while the engine is to move a click
\* selects nothing; and in EngineVsEngine a click changes nothing at all.
C26_ClicksMoveHumanSideOnly ==
    \A sq \in Squares \cup {OffBoard} :
      LET after == on_click(gui, sq, now)
      IN  /\ after.board # gui.board
               => /\ HumanTurn(gui)
                  /\ gui.board.pieces[gui.selected_sq].color = gui.board.turn
                  /\ after.board = push(gui.board, after.last_move)
          /\ (~HumanTurn(gui) /\ main_pc = "events") => after.selected_sq = NoSquare
          /\ gui.mode = ENGINE_VS_ENGINE => after = gui

\* the human has moved in HumanVsEngine and the engine thread is at work on
\* Black's answer
C26_Witness ==
    /\ main_pc = "events" /\ gui.mode = HUMAN_VS_ENGINE
    /\ Len(gui.board.move_stack) = 1 /\ gui.board.turn = BLACK
    /\ gui.threads # {} /\ \A w \in gui.threads : ~w.stale

\* C27: whenever the main loop stands between two handlers, or handle_engine
\* has applied a move, the move log waits for Black exactly when Black is to
\* move on the board, and its counter is the board's full-move number; so
\* every black move that make_move logs finds an entry waiting for it.
C27_LedgerFollowsBoard ==
    /\ [] ( main_pc \in {"events", "handle_engine"} =>
              /\ gui.move_log.waiting_for_black <=> (gui.board.turn = BLACK)
              /\ gui.move_log.current_move_number = gui.board.fullmove_number )
    /\ [][ (PushesMove /\ gui.board.turn = BLACK)
             => (gui.move_log.waiting_for_black /\ gui.move_log.moves # << >>) ]_vars

\* a white and a black move have been applied and logged in one entry
C27_Witness ==
    /\ main_pc = "events"
    /\ Len(gui.board.move_stack) = 2 /\ gui.board.turn = WHITE
    /\ gui.board.fullmove_number = 2 /\ gui.move_log.current_move_number = 2
    /\ Len(gui.move_log.moves) = 1
    /\ gui.move_log.moves[1].white # NoSan /\ gui.move_log.moves[1].black # NoSan

====
